---- MODULE Spec2Model ----
(***************************************************************************)
(* StarkNet client: the account transaction pipeline                       *)
(* (AccountClient.add_transaction, starknet/net/account/account_client.py) *)
(* and the transaction-finality poller (Client.wait_for_tx,                *)
(* starknet/net/client.py).                                                *)
(*                                                                         *)
(* Every action is one synchronous segment of a coroutine, from one await  *)
(* to the next; the collaborators behind the awaits (feeder gateway,       *)
(* gateway, the chain) are the environment.                                *)
(***************************************************************************)
EXTENDS Integers, Sequences, FiniteSets, TLC

(***************************************************************************)
(* Bounds of the model.                                                    *)
(***************************************************************************)
\* add_transaction calls started in one behaviour
MaxCalls == 2
\* longest calldata of an intent
MaxCalldataLen == 2
\* polls issued by one wait_for_tx call
MaxPolls == 3

(***************************************************************************)
(* Values.                                                                 *)
(***************************************************************************)
\* the coroutines that may run add_transaction; Spec runs the calls of task 1,
\* one after another
Tasks == {1, 2}

\* Python's None for an optional string or an unbound integer local
None == "None"
NoInt == -1

\* self.address of the account, and another contract on the chain
AccountAddress == 11
OtherAddress == 12
Addresses == {AccountAddress, OtherAddress}

CalldataValues == {1, 2}
PrivateKeys == {0, 3}
Tokens == {None, "tok"}
\* what a caller may put in tx.signature: nothing, or a foreign (r, s)
Signatures == {<<>>, <<5, 6>>}
\* the account's nonce on the chain when the session starts: 0 for a fresh
\* account, 15 for one whose next nonces need two hexadecimal digits
InitialNonces == {0, 15}

RECURSIVE SeqsUpTo(_, _)
SeqsUpTo(S, n) ==
    IF n = 0 THEN {<<>>}
    ELSE LET shorter == SeqsUpTo(S, n - 1)
         IN  shorter \cup {Append(s, x) : s \in {q \in shorter : Len(q) = n - 1}, x \in S}

(***************************************************************************)
(* External capabilities (starkware), by what they do on a small field.    *)
(***************************************************************************)
\* the field the hash lands in, and the largest signable message + 1
\* (2 ** N_ELEMENT_BITS_ECDSA is a little below the field prime)
FIELD_PRIME == 13
N_ELEMENT_BOUND_ECDSA == 12
EC_ORDER == 11

pedersen_hash(x, y) == (5 * x + 3 * y + 1) % FIELD_PRIME

\* reduce(hash_func, [*data, len(data)], 0)
RECURSIVE hash_fold(_, _)
hash_fold(acc, data) ==
    IF data = <<>> THEN acc
    ELSE hash_fold(pedersen_hash(acc, Head(data)), Tail(data))

compute_hash_on_elements(data) == hash_fold(0, Append(data, Len(data)))

private_to_stark_key(key) == (7 * key + 2) % FIELD_PRIME

\* sign() asserts 0 <= msg_hash < 2 ** N_ELEMENT_BITS_ECDSA and raises otherwise
signable(m) == 0 <= m /\ m < N_ELEMENT_BOUND_ECDSA

\* the (r, s) pair of sign(msg_hash, priv_key); no check of priv_key is made
sign(m, priv_key) ==
    LET r == 1 + ((m + 2 * priv_key) % EC_ORDER)
        s == 1 + ((m + r * priv_key) % EC_ORDER)
    IN  <<r, s>>

\* starknet_keccak of the name, as a table over the names in use
get_selector_from_name(name) ==
    CASE name = "execute"   -> 101
      [] name = "get_nonce" -> 102
      [] name = "transfer"  -> 103
      [] OTHER              -> 100

Selectors == {get_selector_from_name("transfer"), get_selector_from_name("execute")}

(***************************************************************************)
(* The feeder gateway answers in hexadecimal strings; call_contract parses *)
(* them with int(v, 16).  A hexadecimal string is its sequence of digits.  *)
(***************************************************************************)
RECURSIVE hex(_)
hex(n) == IF n < 16 THEN <<n>> ELSE Append(hex(n \div 16), n % 16)

RECURSIVE int16(_)
int16(v) ==
    IF Len(v) = 0 THEN 0
    ELSE 16 * int16(SubSeq(v, 1, Len(v) - 1)) + v[Len(v)]

\* [int(v, 16) for v in response["result"]]
parse_result(response) == [i \in DOMAIN response |-> int16(response[i])]

(***************************************************************************)
(* Transactions.                                                           *)
(***************************************************************************)
DEPLOY == "DEPLOY"
INVOKE_FUNCTION == "INVOKE_FUNCTION"

InvokeFunction(contract_address, entry_point_selector, calldata, signature) ==
    [tx_type              |-> INVOKE_FUNCTION,
     contract_address     |-> contract_address,
     entry_point_selector |-> entry_point_selector,
     calldata             |-> calldata,
     signature            |-> signature]

\* the intents a caller may hand to add_transaction
Intents ==
    [tx_type              : {DEPLOY, INVOKE_FUNCTION},
     contract_address     : Addresses,
     entry_point_selector : Selectors,
     calldata             : SeqsUpTo(CalldataValues, MaxCalldataLen),
     signature            : Signatures]

NoTx == InvokeFunction(0, 0, <<>>, <<>>)

KeyPair(private_key, public_key) ==
    [private_key |-> private_key, public_key |-> public_key]

from_private_key(key) == KeyPair(key, private_to_stark_key(key))

\* mutant: the calldata is spliced into the outer list instead of being hashed
hash_message_elements_flat(account, to, selector, calldata, nonce) ==
    <<account, to, selector>> \o calldata \o <<nonce>>

\* the list hash_message hashes, account_client.py 39-45
hash_message_elements(account, to, selector, calldata, nonce) ==
    <<account, to, selector, compute_hash_on_elements(calldata), nonce>>

hash_message(account, to, selector, calldata, nonce) ==
    compute_hash_on_elements(hash_message_elements(account, to, selector, calldata, nonce))

(***************************************************************************)
(* State.                                                                  *)
(***************************************************************************)
VARIABLES
    \* AccountClient
    address,         \* self.address
    key_pair,        \* self._key_pair
    account_pc,      \* how far the construction of the AccountClient has come
    pk_arg,          \* parameter pk of create_account
    deploy_args,     \* constructor_args create_account gave to Contract.deploy
    \* one add_transaction coroutine per task
    pc,              \* where the coroutine stands
    tx,              \* parameter tx
    token,           \* parameter token
    result,          \* local result (the parsed answer of call_contract)
    nonce,           \* local nonce
    msg_hash,        \* local msg_hash
    rs,              \* locals r, s
    ret,             \* what the call returned, or the exception it raised
    events,          \* what the current call has done so far, in order
    \* what the collaborators have seen of the current call of each task
    feeder_calls,    \* requests received by FeederGatewayClient.call_contract
    feeder_replies,  \* its answers, with the chain's nonce when it answered
    sign_calls,      \* invocations of sign
    gateway_calls,   \* requests received by GatewayClient.add_transaction
    gateway_replies, \* its answers
    \* the chain, and counts over the whole session
    chain_nonce,     \* the account contract's nonce on the chain
    calls_started,   \* add_transaction calls
    n_regular,       \* of which regular invokes that carried no signature
    n_fetch,         \* nonce requests sent
    n_submit,        \* transactions sent to the gateway
    \* one wait_for_tx coroutine
    w_pc,            \* where the coroutine stands
    wait_for_accept, \* parameter wait_for_accept
    check_interval,  \* parameter check_interval
    first_run,       \* local first_run
    w_result,        \* local result (the answer of get_transaction)
    w_ret,           \* what the call returned, or the exception it raised
    polls,           \* get_transaction requests sent by this call
    sleeps,          \* asyncio.sleep calls made by this call
    sleep_for,       \* the delay given to the last of them
    observed         \* the statuses this call has been answered, in order

account_vars == <<address, key_pair, account_pc, pk_arg, deploy_args>>
task_vars == <<pc, tx, token, result, nonce, msg_hash, rs, ret, events>>
log_vars == <<feeder_calls, feeder_replies, sign_calls, gateway_calls, gateway_replies>>
count_vars == <<calls_started, n_regular, n_fetch, n_submit>>
pipeline_vars == <<task_vars, log_vars, chain_nonce, count_vars>>
poller_vars == <<w_pc, wait_for_accept, check_interval, first_run, w_result, w_ret,
                 polls, sleeps, sleep_for, observed>>
vars == <<account_vars, pipeline_vars, poller_vars>>

\* get_transaction's answer: the status name and the block number, NoInt when
\* the answer has no "block_number" key
NoResult == [status |-> "", block_number |-> NoInt]
NoWaitRet == [kind |-> "none", block_number |-> NoInt, status |-> ""]

NoRet == [kind |-> "none", code |-> "", transaction_hash |-> 0]
Raised(exception) == [kind |-> "raise", code |-> exception, transaction_hash |-> 0]
Returned(response) ==
    [kind |-> "return", code |-> response.code,
     transaction_hash |-> response.transaction_hash]

\* no call of add_transaction or wait_for_tx has been made
InitCalls ==
    /\ pc = [t \in Tasks |-> "idle"]
    /\ tx = [t \in Tasks |-> NoTx]
    /\ token = [t \in Tasks |-> None]
    /\ result = [t \in Tasks |-> <<>>]
    /\ nonce = [t \in Tasks |-> NoInt]
    /\ msg_hash = [t \in Tasks |-> NoInt]
    /\ rs = [t \in Tasks |-> <<>>]
    /\ ret = [t \in Tasks |-> NoRet]
    /\ events = [t \in Tasks |-> <<>>]
    /\ feeder_calls = [t \in Tasks |-> <<>>]
    /\ feeder_replies = [t \in Tasks |-> <<>>]
    /\ sign_calls = [t \in Tasks |-> <<>>]
    /\ gateway_calls = [t \in Tasks |-> <<>>]
    /\ gateway_replies = [t \in Tasks |-> <<>>]
    /\ chain_nonce \in InitialNonces
    /\ calls_started = 0
    /\ n_regular = 0
    /\ n_fetch = 0
    /\ n_submit = 0
    /\ w_pc = "idle"
    /\ wait_for_accept = FALSE
    /\ check_interval = 5
    /\ first_run = TRUE
    /\ w_result = NoResult
    /\ w_ret = NoWaitRet
    /\ polls = 0
    /\ sleeps = 0
    /\ sleep_for = 0
    /\ observed = <<>>

\* an AccountClient on an account that is on the chain, its key pair made by
\* KeyPair.from_private_key
Init ==
    /\ address = AccountAddress
    /\ key_pair \in {from_private_key(k) : k \in PrivateKeys}
    /\ account_pc = "ready"
    /\ pk_arg = NoInt
    /\ deploy_args = <<>>
    /\ InitCalls

private_key == key_pair.private_key

Last(s) == s[Len(s)]

(***************************************************************************)
(* Client.add_transaction (client.py 199-207): the request reaches the     *)
(* gateway with the transaction and the token as given.  `sent` is what    *)
(* the gateway has seen of this call before.                               *)
(***************************************************************************)
Client_add_transaction(t, sent, transaction, tok) ==
    /\ gateway_calls' =
           [gateway_calls EXCEPT ![t] = Append(sent, [tx |-> transaction, token |-> tok])]
    /\ n_submit' = n_submit + 1

(***************************************************************************)
(* Client.call_contract (client.py 45-64), the request: it reaches the     *)
(* feeder gateway with the invoke transaction and the block pin as given.  *)
(***************************************************************************)
Client_call_contract(t, invoke_tx, block_hash, block_number) ==
    /\ feeder_calls' =
           [feeder_calls EXCEPT ![t] = <<[invoke_tx |-> invoke_tx,
                                          block_hash |-> block_hash,
                                          block_number |-> block_number]>>]
    /\ n_fetch' = n_fetch + 1

\* mutant: the nonce is asked of the account with the selector of "execute"
nonce_request_execute ==
    InvokeFunction(address, get_selector_from_name("execute"), <<>>, <<>>)

\* the request for the nonce, account_client.py 92-97
nonce_request ==
    InvokeFunction(address, get_selector_from_name("get_nonce"), <<>>, <<>>)

\* mutant: the test on the transaction type is inverted
is_deploy_inverted(intent) == intent.tx_type # DEPLOY

\* tx.tx_type == TransactionType.DEPLOY, account_client.py 83
is_deploy(intent) == intent.tx_type = DEPLOY

\* mutant: the signature of the intent is never looked at
is_signed_unchecked(intent) == FALSE

\* the truth value of tx.signature, account_client.py 86
is_signed(intent) == intent.signature # <<>>

\* mutant: a call waits until no other call on the account is in progress
may_enter_exclusive(t) == \A u \in Tasks \ {t} : pc[u] = "idle"

\* add_transaction takes no lock on the account: a call starts whatever the
\* other tasks are doing (account_client.py 72-98)
may_enter(t) == TRUE

(***************************************************************************)
(* add_transaction, from its entry to its first await                      *)
(* (account_client.py 83-98).  The locals of the coroutine are unbound     *)
(* and the collaborators have seen nothing of this call yet.               *)
(***************************************************************************)
AddTransaction(t, intent, tok) ==
    /\ account_pc = "ready"
    /\ pc[t] = "idle"
    /\ may_enter(t)
    /\ calls_started < MaxCalls
    /\ calls_started' = calls_started + 1
    /\ tx' = [tx EXCEPT ![t] = intent]
    /\ token' = [token EXCEPT ![t] = tok]
    /\ IF is_deploy(intent)
       THEN /\ Client_add_transaction(t, <<>>, intent, tok)
            /\ events' = [events EXCEPT ![t] = <<"add_transaction">>]
            /\ pc' = [pc EXCEPT ![t] = "await_gateway"]
            /\ UNCHANGED <<ret, feeder_calls, n_regular, n_fetch>>
       ELSE IF is_signed(intent)
       THEN /\ pc' = [pc EXCEPT ![t] = "failed"]
            /\ ret' = [ret EXCEPT ![t] = Raised("TypeError")]
            /\ UNCHANGED <<events, feeder_calls, gateway_calls, n_regular, n_fetch,
                           n_submit>>
       ELSE /\ Client_call_contract(t, nonce_request, None, None)
            /\ events' = [events EXCEPT ![t] = <<"call_contract">>]
            /\ pc' = [pc EXCEPT ![t] = "await_nonce"]
            /\ n_regular' = n_regular + 1
            /\ UNCHANGED <<ret, gateway_calls, n_submit>>
    /\ UNCHANGED <<poller_vars, account_vars, result, nonce, msg_hash, rs, feeder_replies,
                   sign_calls, gateway_replies, chain_nonce>>

(***************************************************************************)
(* The coroutine is over: the caller has its result or its exception, the  *)
(* frame and its locals are gone.                                          *)
(***************************************************************************)
Return(t) ==
    /\ pc[t] \in {"done", "failed"}
    /\ pc' = [pc EXCEPT ![t] = "idle"]
    /\ tx' = [tx EXCEPT ![t] = NoTx]
    /\ token' = [token EXCEPT ![t] = None]
    /\ result' = [result EXCEPT ![t] = <<>>]
    /\ nonce' = [nonce EXCEPT ![t] = NoInt]
    /\ msg_hash' = [msg_hash EXCEPT ![t] = NoInt]
    /\ rs' = [rs EXCEPT ![t] = <<>>]
    /\ ret' = [ret EXCEPT ![t] = NoRet]
    /\ events' = [events EXCEPT ![t] = <<>>]
    /\ feeder_calls' = [feeder_calls EXCEPT ![t] = <<>>]
    /\ feeder_replies' = [feeder_replies EXCEPT ![t] = <<>>]
    /\ sign_calls' = [sign_calls EXCEPT ![t] = <<>>]
    /\ gateway_calls' = [gateway_calls EXCEPT ![t] = <<>>]
    /\ gateway_replies' = [gateway_replies EXCEPT ![t] = <<>>]
    /\ UNCHANGED <<poller_vars, account_vars, chain_nonce, count_vars>>

(***************************************************************************)
(* The feeder gateway answers the nonce request and call_contract returns  *)
(* (client.py 59-64, account_client.py 99).  The account contract answers  *)
(* get_nonce with its nonce, alone or followed by another value; a         *)
(* contract at that address that returns nothing gives an empty result,    *)
(* and result[0] raises IndexError.                                        *)
(***************************************************************************)
NonceAnswers == {<<hex(chain_nonce)>>, <<hex(chain_nonce), hex(9)>>, <<>>}

\* mutant: the nonce is counted by the client (the transactions it has sent)
\* instead of being taken from the answer of the chain
first_of_counted(res) == n_submit

\* nonce = result[0], account_client.py 99
first_of(res) == res[1]

NonceResponse(t, response) ==
    /\ pc[t] = "await_nonce"
    /\ feeder_replies' =
           [feeder_replies EXCEPT ![t] = <<[result |-> response, chain |-> chain_nonce,
                                            submitted |-> n_submit]>>]
    /\ result' = [result EXCEPT ![t] = parse_result(response)]
    /\ IF Len(result'[t]) = 0
       THEN /\ pc' = [pc EXCEPT ![t] = "failed"]
            /\ ret' = [ret EXCEPT ![t] = Raised("IndexError")]
            /\ UNCHANGED <<nonce, events>>
       ELSE /\ nonce' = [nonce EXCEPT ![t] = first_of(result'[t])]
            /\ events' = [events EXCEPT ![t] = Append(@, "nonce")]
            /\ pc' = [pc EXCEPT ![t] = "hash"]
            /\ UNCHANGED ret
    /\ UNCHANGED <<poller_vars, account_vars, tx, token, msg_hash, rs, feeder_calls, sign_calls,
                   gateway_calls, gateway_replies, chain_nonce, count_vars>>

\* mutant: when the nonce request fails it is sent again
NonceFailure_again(t) ==
    /\ pc[t] = "await_nonce"
    /\ n_fetch < 2 * MaxCalls
    /\ Client_call_contract(t, nonce_request, None, None)
    /\ UNCHANGED <<poller_vars, account_vars, task_vars, feeder_replies, sign_calls,
                   gateway_calls, gateway_replies, chain_nonce, calls_started,
                   n_regular, n_submit>>

\* the feeder gateway client gives up (its retries are spent): the await raises
NonceFailure(t) ==
    /\ pc[t] = "await_nonce"
    /\ pc' = [pc EXCEPT ![t] = "failed"]
    /\ ret' = [ret EXCEPT ![t] = Raised("ClientError")]
    /\ UNCHANGED <<poller_vars, account_vars, tx, token, result, nonce, msg_hash, rs, events,
                   log_vars, chain_nonce, count_vars>>

\* account_client.py 101-107
HashMessage(t) ==
    /\ pc[t] = "hash"
    /\ msg_hash' = [msg_hash EXCEPT ![t] =
           hash_message(address, tx[t].contract_address, tx[t].entry_point_selector,
                        tx[t].calldata, nonce[t])]
    /\ events' = [events EXCEPT ![t] = Append(@, "hash_message")]
    /\ pc' = [pc EXCEPT ![t] = "sign"]
    /\ UNCHANGED <<poller_vars, account_vars, tx, token, result, nonce, rs, ret, log_vars,
                   chain_nonce, count_vars>>

\* account_client.py 109
Sign(t) ==
    /\ pc[t] = "sign"
    /\ sign_calls' = [sign_calls EXCEPT ![t] =
           Append(@, [msg_hash |-> msg_hash[t], priv_key |-> private_key])]
    /\ events' = [events EXCEPT ![t] = Append(@, "sign")]
    /\ IF signable(msg_hash[t])
       THEN /\ rs' = [rs EXCEPT ![t] = sign(msg_hash[t], private_key)]
            /\ pc' = [pc EXCEPT ![t] = "submit"]
            /\ UNCHANGED ret
       ELSE /\ pc' = [pc EXCEPT ![t] = "failed"]
            /\ ret' = [ret EXCEPT ![t] = Raised("AssertionError")]
            /\ UNCHANGED rs
    /\ UNCHANGED <<poller_vars, account_vars, tx, token, result, nonce, msg_hash, feeder_calls,
                   feeder_replies, gateway_calls, gateway_replies, chain_nonce,
                   count_vars>>

\* mutant: the wrapped transaction is sent to the intent's target
execute_tx_to_target(intent, n, signature) ==
    InvokeFunction(
        intent.contract_address,
        get_selector_from_name("execute"),
        <<intent.contract_address, intent.entry_point_selector, Len(intent.calldata)>>
            \o intent.calldata \o <<n>>,
        signature)

\* the transaction built at account_client.py 112-123
execute_tx(intent, n, signature) ==
    InvokeFunction(
        address,
        get_selector_from_name("execute"),
        <<intent.contract_address, intent.entry_point_selector, Len(intent.calldata)>>
            \o intent.calldata \o <<n>>,
        signature)

\* the token that goes with it: super().add_transaction is given none
execute_token(tok) == None

\* mutant: the submission does not wait for the signature
SubmitExecute_unsigned(t) ==
    /\ pc[t] \in {"sign", "submit"}
    /\ gateway_calls' = [gateway_calls EXCEPT ![t] =
           Append(@, [tx |-> InvokeFunction(address, get_selector_from_name("execute"),
                                            <<tx[t].contract_address,
                                              tx[t].entry_point_selector,
                                              Len(tx[t].calldata)>>
                                                \o tx[t].calldata \o <<nonce[t]>>,
                                            rs[t]),
                      token |-> None])]
    /\ n_submit' = n_submit + 1
    /\ events' = [events EXCEPT ![t] = Append(@, "add_transaction")]
    /\ pc' = [pc EXCEPT ![t] = "await_gateway"]
    /\ UNCHANGED <<poller_vars, account_vars, tx, token, result, nonce, msg_hash, rs, ret,
                   feeder_calls, feeder_replies, sign_calls, gateway_replies,
                   chain_nonce, calls_started, n_regular, n_fetch>>

\* account_client.py 111-124, to the await
SubmitExecute(t) ==
    /\ pc[t] = "submit"
    /\ Client_add_transaction(t, gateway_calls[t], execute_tx(tx[t], nonce[t], rs[t]),
                              execute_token(token[t]))
    /\ events' = [events EXCEPT ![t] = Append(@, "add_transaction")]
    /\ pc' = [pc EXCEPT ![t] = "await_gateway"]
    /\ UNCHANGED <<poller_vars, account_vars, tx, token, result, nonce, msg_hash, rs, ret,
                   feeder_calls, feeder_replies, sign_calls, gateway_replies,
                   chain_nonce, calls_started, n_regular, n_fetch>>

\* the gateway's answer to the n-th transaction of the session
gateway_response(n) == [code |-> "TRANSACTION_RECEIVED", transaction_hash |-> 200 + n]

\* what add_transaction returns of the gateway's answer (client.py 207,
\* account_client.py 84 and 111)
returned_response(response) == Returned(response)

GatewayResponse(t) ==
    /\ pc[t] = "await_gateway"
    /\ gateway_replies' = [gateway_replies EXCEPT ![t] = <<gateway_response(n_submit)>>]
    /\ ret' = [ret EXCEPT ![t] = returned_response(gateway_response(n_submit))]
    /\ pc' = [pc EXCEPT ![t] = "done"]
    /\ UNCHANGED <<poller_vars, account_vars, tx, token, result, nonce, msg_hash, rs, events,
                   feeder_calls, feeder_replies, sign_calls, gateway_calls,
                   chain_nonce, count_vars>>

\* the gateway client gives up (its retries are spent): the await raises
GatewayFailure(t) ==
    /\ pc[t] = "await_gateway"
    /\ pc' = [pc EXCEPT ![t] = "failed"]
    /\ ret' = [ret EXCEPT ![t] = Raised("ClientError")]
    /\ UNCHANGED <<poller_vars, account_vars, tx, token, result, nonce, msg_hash, rs, events,
                   log_vars, chain_nonce, count_vars>>

(***************************************************************************)
(* The chain: the account contract executes a transaction sent to it whose *)
(* nonce is its current one, and moves to the next nonce.                  *)
(***************************************************************************)
executable(request) ==
    /\ request.tx.tx_type = INVOKE_FUNCTION
    /\ request.tx.contract_address = address
    /\ request.tx.entry_point_selector = get_selector_from_name("execute")
    /\ Last(request.tx.calldata) = chain_nonce

ChainExecute ==
    /\ \E t \in Tasks : \E i \in DOMAIN gateway_calls[t] : executable(gateway_calls[t][i])
    /\ chain_nonce' = chain_nonce + 1
    /\ UNCHANGED <<poller_vars, account_vars, task_vars, log_vars, count_vars>>

Next ==
    \/ \E intent \in Intents, tok \in Tokens : AddTransaction(1, intent, tok)
    \/ \E response \in NonceAnswers : NonceResponse(1, response)
    \/ NonceFailure(1)
    \/ HashMessage(1)
    \/ Sign(1)
    \/ SubmitExecute(1)
    \/ GatewayResponse(1)
    \/ GatewayFailure(1)
    \/ Return(1)
    \/ ChainExecute

Spec == Init /\ [][Next]_vars

(***************************************************************************)
(* Making the AccountClient: the constructor on a key pair the caller      *)
(* brings (account_client.py 56-66), or create_account (126-151).          *)
(***************************************************************************)
NoAddress == 0
NoKeyPair == KeyPair(NoInt, NoInt)

\* private keys a caller may bring: zero, a key of the curve, and one beyond
\* the order of the curve
SuppliedKeys == {0, 3, EC_ORDER + 1}

\* what get_random_private_key may return
RandomKeys == {5, 7}

\* the values of the dataclass KeyPair: any two integers (account_client.py
\* 25-28; the generated constructor takes both fields as given)
KeyPairValues ==
    [private_key : SuppliedKeys,
     public_key  : {private_to_stark_key(k) : k \in SuppliedKeys}]

\* AccountClient.__init__, account_client.py 56-66
NewAccountClient(addr, kp) ==
    /\ account_pc = "none"
    /\ address' = addr
    /\ key_pair' = kp
    /\ account_pc' = "ready"
    /\ UNCHANGED <<pk_arg, deploy_args, pipeline_vars, poller_vars>>

\* not pk, account_client.py 135: true of None and of 0
uses_random_key(pk) == pk = NoInt \/ pk = 0

\* create_account to its await, account_client.py 135-145
CreateAccount(pk, random) ==
    /\ account_pc = "none"
    /\ pk_arg' = pk
    /\ key_pair' = from_private_key(IF uses_random_key(pk) THEN random ELSE pk)
    /\ deploy_args' = <<key_pair'.public_key>>
    /\ account_pc' = "deploying"
    /\ UNCHANGED <<address, pipeline_vars, poller_vars>>

\* Contract.deploy has returned the contract; account_client.py 141-151
AccountDeployed(addr) ==
    /\ account_pc = "deploying"
    /\ address' = addr
    /\ account_pc' = "ready"
    /\ UNCHANGED <<key_pair, pk_arg, deploy_args, pipeline_vars, poller_vars>>

\* Contract.deploy raises: create_account returns no client
DeployFailure ==
    /\ account_pc = "deploying"
    /\ account_pc' = "failed"
    /\ UNCHANGED <<address, key_pair, pk_arg, deploy_args, pipeline_vars, poller_vars>>

\* no AccountClient yet
InitAccount ==
    /\ address = NoAddress
    /\ key_pair = NoKeyPair
    /\ account_pc = "none"
    /\ pk_arg = NoInt
    /\ deploy_args = <<>>
    /\ InitCalls

\* the intents sent through the clients made here
AccountIntents ==
    {InvokeFunction(OtherAddress, get_selector_from_name("transfer"), c, <<>>) :
        c \in {<<>>, <<1, 2>>}}

NextAccount ==
    \/ \E kp \in KeyPairValues : NewAccountClient(AccountAddress, kp)
    \/ \E pk \in {NoInt} \cup SuppliedKeys, random \in RandomKeys : CreateAccount(pk, random)
    \/ AccountDeployed(AccountAddress)
    \/ DeployFailure
    \/ \E intent \in AccountIntents, tok \in Tokens : AddTransaction(1, intent, tok)
    \/ \E response \in NonceAnswers : NonceResponse(1, response)
    \/ NonceFailure(1)
    \/ HashMessage(1)
    \/ Sign(1)
    \/ SubmitExecute(1)
    \/ GatewayResponse(1)
    \/ GatewayFailure(1)
    \/ Return(1)
    \/ ChainExecute

SpecAccount == InitAccount /\ [][NextAccount]_vars

(***************************************************************************)
(* Client.wait_for_tx (client.py 160-196).                                 *)
(***************************************************************************)
\* the members of TxStatus that wait_for_tx names (client.py 182-192)
HandledStatuses == {"NOT_RECEIVED", "RECEIVED", "PENDING", "ACCEPTED_ONCHAIN", "REJECTED"}

\* the members of the enumeration starknet.constants.TxStatus: those, and the
\* catch-all for a status the client does not know
TxStatus == HandledStatuses \cup {"UNKNOWN"}

\* the status names the feeder gateway may answer: the members, and a name
\* the enumeration does not have
StatusNames == TxStatus \cup {"ACCEPTED_ON_L2"}

BlockNumbers == {3, 4}
CheckIntervals == {-1, 0, 1, 5}

\* the answers of get_transaction, with and without a "block_number" key
TransactionAnswers == [status : StatusNames, block_number : {NoInt} \cup BlockNumbers]

WaitReturned(block_number, status) ==
    [kind |-> "return", block_number |-> block_number, status |-> status]
WaitRaised(exception) == [kind |-> "raise", block_number |-> NoInt, status |-> exception]

\* mutant: only a negative interval is refused
rejects_interval_negative(interval) == interval < 0

\* check_interval <= 0, client.py 174
rejects_interval(interval) == interval <= 0

\* TxStatus[name] finds a member, client.py 180 (KeyError otherwise)
is_member(name) == name \in TxStatus

\* "block_number" in result
has_block_number(res) == res.block_number # NoInt

\* mutant: a pending transaction is returned whatever wait_for_accept says
pending_returns_always(wfa, res) == has_block_number(res)

\* not wait_for_accept and "block_number" in result, client.py 185
pending_returns(wfa, res) == ~wfa /\ has_block_number(res)

\* mutant: NOT_RECEIVED is tolerated on every poll
not_received_fails_never(first) == FALSE

\* not first_run, client.py 190
not_received_fails(first) == ~first

\* mutant: the last branch of the chain is missing
is_unknown_never(status) == FALSE

\* status != TxStatus.RECEIVED, client.py 192
is_unknown(status) == status # "RECEIVED"

\* status == TxStatus.REJECTED, client.py 187
rejected_fails(status) == status = "REJECTED"

(***************************************************************************)
(* One pass of the loop body after get_transaction has answered            *)
(* (client.py 180-193): what the call returns or raises, or NoWaitRet when *)
(* the loop goes on.                                                       *)
(***************************************************************************)
poll_outcome(res, wfa, first) ==
    IF ~is_member(res.status)
    THEN WaitRaised("KeyError")
    ELSE IF res.status = "ACCEPTED_ONCHAIN"
    THEN IF has_block_number(res)
         THEN WaitReturned(res.block_number, res.status)
         ELSE WaitRaised("KeyError")
    ELSE IF res.status = "PENDING"
    THEN IF pending_returns(wfa, res)
         THEN WaitReturned(res.block_number, res.status)
         ELSE NoWaitRet
    ELSE IF rejected_fails(res.status)
    THEN WaitRaised("Rejected")
    ELSE IF res.status = "NOT_RECEIVED"
    THEN IF not_received_fails(first)
         THEN WaitRaised("NotReceived")
         ELSE NoWaitRet
    ELSE IF is_unknown(res.status)
    THEN WaitRaised("UnknownStatus")
    ELSE NoWaitRet

\* wait_for_tx from its entry to its first await (client.py 174-179)
WaitForTx(wfa, interval) ==
    /\ w_pc = "idle"
    /\ wait_for_accept' = wfa
    /\ check_interval' = interval
    /\ IF rejects_interval(interval)
       THEN /\ w_pc' = "failed"
            /\ w_ret' = WaitRaised("ValueError")
            /\ UNCHANGED <<first_run, polls>>
       ELSE /\ first_run' = TRUE
            /\ polls' = polls + 1
            /\ w_pc' = "await_tx"
            /\ UNCHANGED w_ret
    /\ UNCHANGED <<account_vars, pipeline_vars, w_result, sleeps, sleep_for, observed>>

\* mutant: the loop asks again at once, without the sleep
TransactionResponse_busy(answer) ==
    /\ w_pc = "await_tx"
    /\ w_result' = answer
    /\ observed' = Append(observed, answer.status)
    /\ LET outcome == poll_outcome(answer, wait_for_accept, first_run)
       IN  IF outcome.kind = "none"
           THEN /\ first_run' = FALSE
                /\ polls < MaxPolls
                /\ polls' = polls + 1
                /\ w_pc' = "await_tx"
                /\ UNCHANGED <<w_ret, sleeps, sleep_for>>
           ELSE /\ w_ret' = outcome
                /\ w_pc' = IF outcome.kind = "return" THEN "returned" ELSE "failed"
                /\ UNCHANGED <<first_run, sleeps, sleep_for, polls>>
    /\ UNCHANGED <<account_vars, pipeline_vars, wait_for_accept, check_interval>>

\* get_transaction answers; the loop body runs to a return, a raise or the
\* sleep (client.py 179-196)
TransactionResponse(answer) ==
    /\ w_pc = "await_tx"
    /\ w_result' = answer
    /\ observed' = Append(observed, answer.status)
    /\ LET outcome == poll_outcome(answer, wait_for_accept, first_run)
       IN  IF outcome.kind = "none"
           THEN /\ first_run' = FALSE
                /\ sleeps' = sleeps + 1
                /\ sleep_for' = check_interval
                /\ w_pc' = "sleeping"
                /\ UNCHANGED w_ret
           ELSE /\ w_ret' = outcome
                /\ w_pc' = IF outcome.kind = "return" THEN "returned" ELSE "failed"
                /\ UNCHANGED <<first_run, sleeps, sleep_for>>
    /\ UNCHANGED <<account_vars, pipeline_vars, wait_for_accept, check_interval, polls>>

\* the feeder gateway client gives up (its retries are spent): the await raises
TransactionFailure ==
    /\ w_pc = "await_tx"
    /\ w_pc' = "failed"
    /\ w_ret' = WaitRaised("ClientError")
    /\ UNCHANGED <<account_vars, pipeline_vars, wait_for_accept, check_interval,
                   first_run, w_result, polls, sleeps, sleep_for, observed>>

\* mutant: on waking the poller sends the last transaction of task 1 again
Wake_resubmitting ==
    /\ w_pc = "sleeping"
    /\ polls < MaxPolls
    /\ polls' = polls + 1
    /\ w_pc' = "await_tx"
    /\ gateway_calls' = [gateway_calls EXCEPT ![1] =
           IF @ = <<>> THEN @ ELSE Append(@, Last(@))]
    /\ UNCHANGED <<account_vars, task_vars, feeder_calls, feeder_replies, sign_calls,
                   gateway_replies, chain_nonce, count_vars, wait_for_accept,
                   check_interval, first_run, w_result, w_ret, sleeps, sleep_for,
                   observed>>

\* mutant: the loop gives up once two polls have been made
loop_condition_bounded(n) == n < 2

\* while True, client.py 178: the loop has no limit on its passes
loop_condition(n) == TRUE

\* the sleep is over and the loop asks again (client.py 196, 178-179); a
\* loop that is left falls off the end of the function, which returns None
Wake ==
    /\ w_pc = "sleeping"
    /\ polls < MaxPolls
    /\ IF loop_condition(polls)
       THEN /\ polls' = polls + 1
            /\ w_pc' = "await_tx"
            /\ UNCHANGED w_ret
       ELSE /\ w_pc' = "returned"
            /\ w_ret' = WaitReturned(NoInt, None)
            /\ UNCHANGED polls
    /\ UNCHANGED <<account_vars, pipeline_vars, wait_for_accept, check_interval,
                   first_run, w_result, sleeps, sleep_for, observed>>

\* the caller cancels the task at one of its awaits
Cancel ==
    /\ w_pc \in {"await_tx", "sleeping"}
    /\ w_pc' = "cancelled"
    /\ w_ret' = WaitRaised("CancelledError")
    /\ UNCHANGED <<account_vars, pipeline_vars, wait_for_accept, check_interval,
                   first_run, w_result, polls, sleeps, sleep_for, observed>>

NextWait ==
    \/ \E wfa \in BOOLEAN, interval \in CheckIntervals : WaitForTx(wfa, interval)
    \/ \E answer \in TransactionAnswers : TransactionResponse(answer)
    \/ TransactionFailure
    \/ Wake
    \/ Cancel

SpecWait == Init /\ [][NextWait]_vars

(***************************************************************************)
(* wait_for_tx on a transaction whose status settles: the answer to the    *)
(* last poll the bound allows is ACCEPTED_ONCHAIN, REJECTED, a NOT_RECEIVED *)
(* that is not the first answer, or a status the poller does not handle.   *)
(* The event loop resumes a sleeping task when its delay is over, and a    *)
(* request that is out is answered or fails.                               *)
(***************************************************************************)
Settles(answer) ==
    \/ answer.status \in {"ACCEPTED_ONCHAIN", "REJECTED"}
    \/ answer.status = "NOT_RECEIVED" /\ ~first_run
    \/ answer.status \notin HandledStatuses

SettlingResponse ==
    \E answer \in TransactionAnswers :
        /\ polls < MaxPolls \/ Settles(answer)
        /\ TransactionResponse(answer)

NextSettling ==
    \/ \E wfa \in BOOLEAN, interval \in CheckIntervals : WaitForTx(wfa, interval)
    \/ SettlingResponse
    \/ TransactionFailure
    \/ Wake
    \/ Cancel

SpecSettling ==
    /\ Init
    /\ [][NextSettling]_vars
    /\ WF_vars(SettlingResponse \/ TransactionFailure)
    /\ WF_vars(Wake)

(***************************************************************************)
(* Two tasks of the same event loop call add_transaction on one account.   *)
(* Each action is the segment of a coroutine between two awaits, so the    *)
(* calls interleave at their awaits: the nonce fetch and the submission.   *)
(***************************************************************************)
\* the account's nonce on the chain is 0
InitClient ==
    /\ Init
    /\ chain_nonce = 0

NextConc ==
    \/ \E t \in Tasks, intent \in AccountIntents : AddTransaction(t, intent, None)
    \/ \E t \in Tasks : NonceResponse(t, <<hex(chain_nonce)>>)
    \/ \E t \in Tasks : HashMessage(t)
    \/ \E t \in Tasks : Sign(t)
    \/ \E t \in Tasks : SubmitExecute(t)
    \/ \E t \in Tasks : GatewayResponse(t)
    \/ \E t \in Tasks : Return(t)
    \/ ChainExecute

SpecConc == InitClient /\ [][NextConc]_vars

(***************************************************************************)
(* One client used by two tasks of the same event loop: task 1 sends       *)
(* transactions through add_transaction while another task waits in        *)
(* wait_for_tx.  Each action is the segment of a coroutine between two     *)
(* awaits, so the segments of the two tasks interleave at the awaits.      *)
(***************************************************************************)
ClientIntent ==
    InvokeFunction(OtherAddress, get_selector_from_name("transfer"), <<1>>, <<>>)

NextClient ==
    \/ AddTransaction(1, ClientIntent, "tok")
    \/ NonceResponse(1, <<hex(chain_nonce)>>)
    \/ HashMessage(1)
    \/ Sign(1)
    \/ SubmitExecute(1)
    \/ GatewayResponse(1)
    \/ Return(1)
    \/ \E wfa \in BOOLEAN, interval \in CheckIntervals : WaitForTx(wfa, interval)
    \/ \E answer \in TransactionAnswers : TransactionResponse(answer)
    \/ TransactionFailure
    \/ Wake
    \/ Cancel

SpecClient == InitClient /\ [][NextClient]_vars

(***************************************************************************)
(* Properties of AccountClient.add_transaction.                            *)
(***************************************************************************)
\* task t is inside (or has just ended) a call on a regular invoke intent
\* that carries no signature
RegularCall(t) ==
    /\ pc[t] # "idle"
    /\ tx[t].tx_type = INVOKE_FUNCTION
    /\ tx[t].signature = <<>>

PresignedCall(t) ==
    /\ pc[t] # "idle"
    /\ tx[t].tx_type = INVOKE_FUNCTION
    /\ tx[t].signature # <<>>

DeployCall(t) ==
    /\ pc[t] # "idle"
    /\ tx[t].tx_type = DEPLOY

\* the nonce the feeder gateway returned to the current call of t
FetchedNonce(t) == int16(feeder_replies[t][1].result[1])

\* C1: a regular invoke intent without signature leads to at most one
\* submission, exactly one once the call has returned, and the submitted
\* transaction targets the account's own address with the selector of
\* "execute", calldata [to, selector, len(calldata), *calldata, nonce] with the
\* nonce fetched in this call, and the signature [r, s] that sign returned.
C1_ExecuteShape ==
    \A t \in Tasks : RegularCall(t) =>
        /\ Len(gateway_calls[t]) <= 1
        /\ pc[t] = "done" => Len(gateway_calls[t]) = 1
        /\ \A i \in DOMAIN gateway_calls[t] :
              LET sent == gateway_calls[t][i].tx
              IN  /\ sent.tx_type = INVOKE_FUNCTION
                  /\ sent.contract_address = address
                  /\ sent.entry_point_selector = get_selector_from_name("execute")
                  /\ Len(feeder_replies[t]) = 1
                  /\ Len(feeder_replies[t][1].result) >= 1
                  /\ sent.calldata =
                         <<tx[t].contract_address, tx[t].entry_point_selector,
                           Len(tx[t].calldata)>>
                         \o tx[t].calldata \o <<FetchedNonce(t)>>
                  /\ Len(sent.signature) = 2
                  /\ Len(sign_calls[t]) = 1
                  /\ sent.signature =
                         sign(sign_calls[t][1].msg_hash, sign_calls[t][1].priv_key)

\* a call on [OtherAddress, transfer, (1, 2)] has returned after one submission
C1_Witness ==
    /\ RegularCall(1)
    /\ pc[1] = "done"
    /\ tx[1].contract_address = OtherAddress
    /\ tx[1].calldata = <<1, 2>>
    /\ Len(gateway_calls[1]) = 1
    /\ gateway_calls[1][1].tx.contract_address = AccountAddress

\* C2: a non-deploy intent that carries a signature makes add_transaction
\* fail (TypeError), and the nonce endpoint, the signer and the submission
\* endpoint have not been called.
C2_PresignedRejected ==
    \A t \in Tasks : PresignedCall(t) =>
        /\ pc[t] = "failed"
        /\ ret[t] = Raised("TypeError")
        /\ feeder_calls[t] = <<>>
        /\ sign_calls[t] = <<>>
        /\ gateway_calls[t] = <<>>
        /\ events[t] = <<>>

C2_Witness ==
    /\ PresignedCall(1)
    /\ pc[1] = "failed"
    /\ tx[1].signature = <<5, 6>>

\* C3: a deploy intent is handed to the submission endpoint once, unmodified
\* and with the caller's token, with no nonce fetch and no sign call, and the
\* endpoint's response is what add_transaction returns.
C3_DeployPassthrough ==
    \A t \in Tasks : DeployCall(t) =>
        /\ feeder_calls[t] = <<>>
        /\ sign_calls[t] = <<>>
        /\ gateway_calls[t] = <<[tx |-> tx[t], token |-> token[t]]>>
        /\ pc[t] = "done" =>
              /\ Len(gateway_replies[t]) = 1
              /\ ret[t].kind = "return"
              /\ ret[t].code = gateway_replies[t][1].code
              /\ ret[t].transaction_hash = gateway_replies[t][1].transaction_hash

\* a deploy carrying a token and a signature field has returned
C3_Witness ==
    /\ DeployCall(1)
    /\ pc[1] = "done"
    /\ token[1] = "tok"
    /\ tx[1].calldata = <<2, 1>>
    /\ ret[1].transaction_hash = gateway_replies[1][1].transaction_hash

IsPrefix(s, full) == Len(s) <= Len(full) /\ s = SubSeq(full, 1, Len(s))

\* C4: in a call on a regular invoke intent the steps happen in the order
\* nonce fetch, hash, sign, submission; the nonce hashed and signed is the one
\* the fetch returned and it is the last calldata element of the submitted
\* transaction; nothing is submitted before the fetch and the sign of the
\* same call have completed.
C4_PipelineOrder ==
    \A t \in Tasks : RegularCall(t) =>
        /\ IsPrefix(events[t],
                    <<"call_contract", "nonce", "hash_message", "sign", "add_transaction">>)
        /\ msg_hash[t] # NoInt =>
              /\ Len(feeder_replies[t]) = 1
              /\ msg_hash[t] = hash_message(address, tx[t].contract_address,
                                            tx[t].entry_point_selector, tx[t].calldata,
                                            FetchedNonce(t))
        /\ \A i \in DOMAIN sign_calls[t] :
              /\ msg_hash[t] # NoInt
              /\ sign_calls[t][i].msg_hash = msg_hash[t]
              /\ sign_calls[t][i].priv_key = private_key
        /\ gateway_calls[t] # <<>> =>
              /\ Len(feeder_calls[t]) = 1
              /\ Len(feeder_replies[t]) = 1
              /\ Len(sign_calls[t]) = 1
              /\ rs[t] = sign(msg_hash[t], private_key)
              /\ Last(gateway_calls[t][1].tx.calldata) = FetchedNonce(t)
              /\ gateway_calls[t][1].tx.signature = rs[t]

\* the whole pipeline has run, on a nonce of two hexadecimal digits
C4_Witness ==
    /\ RegularCall(1)
    /\ events[1] = <<"call_contract", "nonce", "hash_message", "sign", "add_transaction">>
    /\ nonce[1] = 16
    /\ Last(gateway_calls[1][1].tx.calldata) = 16

\* C5: the nonce is fetched anew in every call: as many nonce requests have
\* been sent as regular invoke calls were made, one per call, and the nonce a
\* submitted transaction carries is the chain's value at the time the fetch
\* of the same call was answered.
C5_NonceNeverCached ==
    /\ n_fetch = n_regular
    /\ \A t \in Tasks : RegularCall(t) =>
          /\ Len(feeder_calls[t]) = 1
          /\ nonce[t] # NoInt =>
                /\ Len(feeder_replies[t]) = 1
                /\ nonce[t] = feeder_replies[t][1].chain
          /\ \A i \in DOMAIN gateway_calls[t] :
                Last(gateway_calls[t][i].tx.calldata) = feeder_replies[t][1].chain

\* the second regular call of the session has submitted with the nonce the
\* chain moved to after the first one was executed
C5_Witness ==
    /\ RegularCall(1)
    /\ n_regular = 2
    /\ n_fetch = 2
    /\ n_submit = 2
    /\ Len(gateway_calls[1]) = 1
    /\ Last(gateway_calls[1][1].tx.calldata) = 1
    /\ feeder_replies[1][1].chain = 1
\* a private key of the curve: 1 <= key < EC_ORDER
ValidKey(key) == 1 <= key /\ key < EC_ORDER

\* C11: a zero or out-of-range private key is refused before any network
\* call: add_transaction on a regular invoke intent fails with no nonce fetch
\* and no submission, and create_account neither replaces such a key by
\* another one nor goes on to deploy with it.
C11_InvalidKeyFailsFast ==
    /\ \A t \in Tasks : (RegularCall(t) /\ ~ValidKey(private_key)) =>
          /\ pc[t] = "failed"
          /\ feeder_calls[t] = <<>>
          /\ gateway_calls[t] = <<>>
    /\ (pk_arg # NoInt /\ deploy_args # <<>>) => key_pair.private_key = pk_arg
    /\ (pk_arg # NoInt /\ ~ValidKey(pk_arg)) =>
          /\ deploy_args = <<>>
          /\ account_pc \notin {"deploying", "ready"}

\* C12: the token given to add_transaction reaches the submission endpoint
\* with the transaction that is submitted, for a deploy intent and for a
\* regular invoke intent wrapped into an execute transaction alike.
C12_TokenForwarded ==
    \A t \in Tasks : \A i \in DOMAIN gateway_calls[t] :
        gateway_calls[t][i].token = token[t]

\* C13: the hash of a call's message is H([account, to, selector,
\* H(calldata), nonce]): the outer list has five elements whatever the length
\* of the calldata, and the hash is a function of the account address, the
\* intent's target, selector and calldata, and the nonce alone.
C13_TwoLevelHash ==
    \A t \in Tasks : (RegularCall(t) /\ msg_hash[t] # NoInt) =>
        LET digest == compute_hash_on_elements(tx[t].calldata)
            outer  == hash_message_elements(address, tx[t].contract_address,
                                            tx[t].entry_point_selector,
                                            tx[t].calldata, nonce[t])
        IN  /\ Len(outer) = 5
            /\ outer = <<address, tx[t].contract_address, tx[t].entry_point_selector,
                         digest, nonce[t]>>
            /\ msg_hash[t] =
                   hash_fold(0, <<address, tx[t].contract_address,
                                  tx[t].entry_point_selector, digest, nonce[t], 5>>)

\* a message with empty calldata has been hashed
C13_Witness ==
    /\ RegularCall(1)
    /\ msg_hash[1] # NoInt
    /\ tx[1].calldata = <<>>
    /\ msg_hash[1] = hash_message(address, tx[1].contract_address,
                                  tx[1].entry_point_selector, <<>>, nonce[1])

\* C14: every KeyPair the program holds has public_key = derive(private_key),
\* however it was constructed, and no operation changes it afterwards.
C14_KeyPairDerived ==
    key_pair # NoKeyPair =>
        key_pair.public_key = private_to_stark_key(key_pair.private_key)

\* C15: the nonce fetch of a call on a regular invoke intent is one request
\* on the contract-call read path: an invoke of the selector of "get_nonce" at
\* the account's own address with empty calldata and empty signature, with no
\* block hash and no block number; the nonce used is the first element of the
\* result list that came back.  Other calls make no such request.
C15_NonceFetchShape ==
    \A t \in Tasks :
        /\ RegularCall(t) =>
              /\ Len(feeder_calls[t]) = 1
              /\ feeder_calls[t][1].invoke_tx.tx_type = INVOKE_FUNCTION
              /\ feeder_calls[t][1].invoke_tx.contract_address = address
              /\ feeder_calls[t][1].invoke_tx.entry_point_selector =
                     get_selector_from_name("get_nonce")
              /\ feeder_calls[t][1].invoke_tx.calldata = <<>>
              /\ feeder_calls[t][1].invoke_tx.signature = <<>>
              /\ feeder_calls[t][1].block_hash = None
              /\ feeder_calls[t][1].block_number = None
              /\ nonce[t] # NoInt =>
                    /\ Len(feeder_replies[t]) = 1
                    /\ feeder_replies[t][1].result # <<>>
                    /\ nonce[t] = int16(feeder_replies[t][1].result[1])
        /\ ~RegularCall(t) => feeder_calls[t] = <<>>

\* a result list of two elements came back and the call went on with the
\* first one, a nonce of two hexadecimal digits
C15_Witness ==
    /\ RegularCall(1)
    /\ Len(feeder_replies[1]) = 1
    /\ Len(feeder_replies[1][1].result) = 2
    /\ feeder_replies[1][1].result[1] = <<1, 0>>
    /\ nonce[1] = 16
    /\ gateway_calls[1] # <<>>

\* the call of t has ended on its nonce fetch: nothing came after the request
NonceFetchFailed(t) ==
    RegularCall(t) /\ pc[t] = "failed" /\ events[t] = <<"call_contract">>

\* the call of t has ended on its sign step
SignFailed(t) ==
    RegularCall(t) /\ pc[t] = "failed" /\ Len(events[t]) = 4

\* C16: add_transaction retries nothing.  A nonce fetch that fails, an empty
\* result list included, or a sign that fails ends the call with an exception
\* for the caller; the step that failed was attempted once, the steps after it
\* not at all, and nothing was handed to the gateway.
C16_NoRetries ==
    /\ n_fetch = n_regular
    /\ \A t \in Tasks :
          /\ NonceFetchFailed(t) =>
                /\ ret[t].kind = "raise"
                /\ ret[t].code \in {"IndexError", "ClientError"}
                /\ Len(feeder_calls[t]) = 1
                /\ Len(feeder_replies[t]) <= 1
                /\ sign_calls[t] = <<>>
                /\ gateway_calls[t] = <<>>
          /\ SignFailed(t) =>
                /\ ret[t] = Raised("AssertionError")
                /\ Len(feeder_calls[t]) = 1
                /\ Len(sign_calls[t]) = 1
                /\ gateway_calls[t] = <<>>
          /\ (RegularCall(t) /\ feeder_replies[t] # <<>>
                  /\ feeder_replies[t][1].result = <<>>) =>
                /\ pc[t] = "failed"
                /\ ret[t] = Raised("IndexError")
          /\ (RegularCall(t) /\ sign_calls[t] # <<>>
                  /\ ~signable(sign_calls[t][1].msg_hash)) =>
                /\ pc[t] = "failed"
                /\ ret[t] = Raised("AssertionError")
          /\ (RegularCall(t) /\ pc[t] = "failed") =>
                NonceFetchFailed(t) \/ SignFailed(t) \/ gateway_calls[t] # <<>>

\* the second regular call of the session has failed on its sign step, after
\* a first one that ended before its submission too
C16_Witness ==
    /\ SignFailed(1)
    /\ ~signable(msg_hash[1])
    /\ Len(sign_calls[1]) = 1
    /\ n_regular = 2
    /\ n_fetch = 2
    /\ n_submit = 0

\* C19: nothing serializes the calls on one account: a task that is not in
\* a call can start one whatever step the other task's call is at, and a
\* submitted transaction carries the nonce that its own call fetched, whatever
\* the other call has fetched or submitted since.  So two calls that overlap
\* can both fetch the same nonce before either submits and both submit with it.
C19_NonceRace ==
    /\ \A t \in Tasks : (pc[t] = "idle" /\ calls_started < MaxCalls) =>
          \A intent \in AccountIntents : ENABLED AddTransaction(t, intent, None)
    /\ \A t \in Tasks : \A i \in DOMAIN gateway_calls[t] :
          /\ Len(feeder_replies[t]) = 1
          /\ Last(gateway_calls[t][i].tx.calldata) = feeder_replies[t][1].chain
          /\ Last(gateway_calls[t][i].tx.calldata) = nonce[t]

\* two calls with different intents both got nonce 0 from the chain when
\* nothing had been submitted yet, and both have submitted an execute
\* transaction that carries nonce 0, each with its own signature
C19_Witness ==
    /\ RegularCall(1)
    /\ RegularCall(2)
    /\ tx[1] # tx[2]
    /\ Len(gateway_calls[1]) = 1
    /\ Len(gateway_calls[2]) = 1
    /\ feeder_replies[1][1].chain = 0
    /\ feeder_replies[2][1].chain = 0
    /\ feeder_replies[1][1].submitted = 0
    /\ feeder_replies[2][1].submitted = 0
    /\ Last(gateway_calls[1][1].tx.calldata) = 0
    /\ Last(gateway_calls[2][1].tx.calldata) = 0
    /\ gateway_calls[1][1].tx.entry_point_selector = get_selector_from_name("execute")
    /\ gateway_calls[2][1].tx.entry_point_selector = get_selector_from_name("execute")
    /\ gateway_calls[1][1].tx.signature # <<>>
    /\ gateway_calls[2][1].tx.signature # <<>>
    /\ gateway_calls[1][1].tx.signature # gateway_calls[2][1].tx.signature

(***************************************************************************)
(* Properties of Client.wait_for_tx.                                       *)
(***************************************************************************)
\* the last get_transaction request of the call has been answered, and
\* w_result is that answer
JustObserved == polls > 0 /\ Len(observed) = polls

\* C6: with check_interval <= 0 wait_for_tx fails (ValueError) and has sent
\* no get_transaction request and has not slept.
C6_IntervalRejected ==
    (w_pc # "idle" /\ check_interval <= 0) =>
        /\ w_pc = "failed"
        /\ w_ret = WaitRaised("ValueError")
        /\ polls = 0
        /\ sleeps = 0
        /\ observed = <<>>

C6_Witness ==
    /\ w_pc = "failed"
    /\ check_interval = 0
    /\ w_ret = WaitRaised("ValueError")

C8_PendingReturn ==
    /\ (JustObserved /\ w_result.status = "PENDING") =>
          IF ~wait_for_accept /\ w_result.block_number # NoInt
          THEN /\ w_pc = "returned"
               /\ w_ret = WaitReturned(w_result.block_number, "PENDING")
               /\ sleeps = polls - 1
          ELSE /\ w_pc \in {"sleeping", "cancelled"}
               /\ w_ret.kind # "return"
               /\ sleeps = polls
    /\ (w_pc = "returned" /\ wait_for_accept) => w_ret.status # "PENDING"

\* the scripted sequence NOT_RECEIVED, RECEIVED, PENDING with a block number,
\* wait_for_accept false: the call has returned at the third poll
C8_Witness ==
    /\ observed = <<"NOT_RECEIVED", "RECEIVED", "PENDING">>
    /\ ~wait_for_accept
    /\ w_pc = "returned"
    /\ w_ret = WaitReturned(3, "PENDING")

\* C9: NOT_RECEIVED is tolerated on the first poll of a call only: observed
\* on poll 1 the call goes on to the sleep before the next poll, observed on
\* a later poll, whatever was observed before, the call fails at that poll.
C9_NotReceivedGrace ==
    (JustObserved /\ w_result.status = "NOT_RECEIVED") =>
        IF polls = 1
        THEN /\ w_pc \in {"sleeping", "cancelled"}
             /\ w_ret.kind # "return"
             /\ sleeps = 1
        ELSE /\ w_pc = "failed"
             /\ w_ret = WaitRaised("NotReceived")
             /\ sleeps = polls - 1

\* NOT_RECEIVED twice: the second poll has happened and the call failed at it
C9_Witness ==
    /\ observed = <<"NOT_RECEIVED", "NOT_RECEIVED">>
    /\ w_pc = "failed"
    /\ polls = 2

\* C10: a poll that observes REJECTED, or a status that is none of
\* NOT_RECEIVED, RECEIVED, PENDING, ACCEPTED_ONCHAIN, REJECTED, ends the call
\* with a failure at that poll: nothing is returned for it, and no poll and no
\* sleep follows it.
C10_RejectedOrUnknownFails ==
    /\ (JustObserved /\ w_result.status \notin
            {"NOT_RECEIVED", "RECEIVED", "PENDING", "ACCEPTED_ONCHAIN"}) =>
          /\ w_pc = "failed"
          /\ w_ret.kind = "raise"
          /\ w_ret.status \in {"Rejected", "UnknownStatus", "KeyError"}
          /\ sleeps = polls - 1
    /\ \A i \in 1..(Len(observed) - 1) :
          observed[i] \in {"NOT_RECEIVED", "RECEIVED", "PENDING"}

\* RECEIVED and then a status the poller does not know: failed at poll 2
C10_Witness ==
    /\ observed = <<"RECEIVED", "UNKNOWN">>
    /\ w_pc = "failed"
    /\ w_ret = WaitRaised("UnknownStatus")

\* C17: every poll that neither returns nor fails is followed by one sleep of
\* check_interval before the next poll: while a request is out there has been
\* one sleep per earlier poll, none before the first; while the poller sleeps
\* there has been one sleep per poll; after the poll that returned or failed
\* no sleep was added.  The sleep is an await: a step of the task that is in
\* add_transaction is enabled while the poller sleeps.
C17_SleepBetweenPolls ==
    /\ w_pc = "idle" => (polls = 0 /\ sleeps = 0)
    /\ w_pc = "await_tx" => sleeps = polls - 1
    /\ w_pc = "sleeping" =>
          /\ sleeps = polls
          /\ sleep_for = check_interval
          /\ Len(observed) = polls
    /\ w_pc \in {"returned", "failed"} => sleeps = IF polls = 0 THEN 0 ELSE polls - 1
    /\ w_pc = "cancelled" => sleeps \in {polls - 1, polls}
    /\ sleeps > 0 => sleep_for = check_interval
    /\ (w_pc = "sleeping" /\ pc[1] = "hash") => ENABLED HashMessage(1)
    /\ (w_pc = "sleeping" /\ pc[1] = "sign") => ENABLED Sign(1)
    /\ (w_pc = "sleeping" /\ pc[1] = "submit") => ENABLED SubmitExecute(1)

\* the poller is in its second sleep, of 5 seconds, and the task that is in
\* add_transaction has got as far as its submission meanwhile
C17_Witness ==
    /\ w_pc = "sleeping"
    /\ polls = 2
    /\ sleeps = 2
    /\ sleep_for = 5
    /\ observed = <<"NOT_RECEIVED", "RECEIVED">>
    /\ pc[1] = "await_gateway"
    /\ Len(gateway_calls[1]) = 1

\* a step of wait_for_tx: a variable of the poller changes
PollerStep == poller_vars' # poller_vars

\* a step of add_transaction or of its collaborators
PipelineStep == pipeline_vars' # pipeline_vars

\* C18: a step of wait_for_tx, its cancellation included, changes nothing
\* but the poller's own locals: it sends nothing to the gateway and no
\* contract call, and leaves the address and the key pair as they are.  A
\* step of add_transaction leaves the address and the key pair unchanged, and
\* the intent of a call is the same from its first step to its last; what a
\* call built is gone when it has returned.
C18_Frame ==
    [][ /\ PollerStep => UNCHANGED <<account_vars, pipeline_vars>>
        /\ PipelineStep => UNCHANGED account_vars
        /\ \A t \in Tasks :
              /\ (pc[t] # "idle" /\ pc'[t] # "idle") => tx'[t] = tx[t]
              /\ pc'[t] = "idle" =>
                    /\ tx'[t] = NoTx
                    /\ rs'[t] = <<>>
                    /\ nonce'[t] = NoInt
                    /\ msg_hash'[t] = NoInt ]_vars

\* the poller was cancelled in its sleep after task 1 had submitted: one
\* transaction reached the gateway, one poll was made
C18_Witness ==
    /\ w_pc = "cancelled"
    /\ polls = 1
    /\ sleeps = 1
    /\ n_submit = 1
    /\ Len(gateway_calls[1]) = 1
    /\ address = AccountAddress

\* the call has ended on an answer of get_transaction
EndedOnAnswer ==
    /\ w_pc \in {"returned", "failed"}
    /\ polls > 0
    /\ w_ret # WaitRaised("ClientError")

\* C20: with a valid check_interval a call that has started polling ends,
\* by a return or a failure, when the status settles on ACCEPTED_ONCHAIN,
\* REJECTED, a NOT_RECEIVED that is not the first answer or an unhandled
\* status.  The loop has no limit of its own: the call ends on an answer only
\* if that answer settles it or is a PENDING that is returned, so as long as
\* the answers are RECEIVED, or PENDING with wait_for_accept or without a
\* block number, it is still polling, and the next poll follows every sleep.
C20_Termination ==
    /\ (w_pc \in {"await_tx", "sleeping"}) ~> (w_pc \in {"returned", "failed", "cancelled"})
    /\ [](EndedOnAnswer =>
            /\ Len(observed) = polls
            /\ \/ w_result.status \in {"ACCEPTED_ONCHAIN", "REJECTED"}
               \/ w_result.status = "NOT_RECEIVED" /\ polls > 1
               \/ w_result.status \notin HandledStatuses
               \/ /\ w_result.status = "PENDING"
                  /\ ~wait_for_accept
                  /\ w_result.block_number # NoInt)
    /\ []((w_pc = "sleeping" /\ polls < MaxPolls) => ENABLED Wake)
    /\ []((polls > 0 /\ Len(observed) = polls
              /\ w_result.status = "RECEIVED") => w_pc \in {"sleeping", "cancelled"})

\* after NOT_RECEIVED and RECEIVED the third poll saw ACCEPTED_ONCHAIN and
\* the call returned its block number
C20_Witness ==
    /\ observed = <<"NOT_RECEIVED", "RECEIVED", "ACCEPTED_ONCHAIN">>
    /\ check_interval = 1
    /\ w_pc = "returned"
    /\ w_ret = WaitReturned(4, "ACCEPTED_ONCHAIN")
    /\ polls = 3
    /\ sleeps = 2
====
